---- MODULE Spec2Model ----
(***************************************************************************)
(* The credentials service of lambda/core/credentials.go: a map from token *)
(* to Credentials guarded by contentMutex, and a gate (serviceMutex) that  *)
(* BlockService leaves locked until UnblockService unlocks it.             *)
(*                                                                         *)
(* Every goroutine is a thread with a program counter; one action is one   *)
(* statement of the source (a Lock, an Unlock, a read or a write of a      *)
(* shared field).  A struct copy into the map is one step per field.       *)
(***************************************************************************)
EXTENDS Integers, FiniteSets, Sequences, TLC

\* ------------------------------------------------------------------ bounds
NumWorkers == 2
MaxTime == 1

\* --------------------------------------------------------------- constants
UNBLOCKED == 0
BLOCKED == 1
ExpirationMinutes == 16

\* The goroutines: the rotation task, which calls BlockService,
\* UnblockService, UpdateCredentials and SetCredentials, and the workers,
\* which call GetCredentials and SetCredentials.
Rotator == 0
Workers == 1..NumWorkers
Threads == {Rotator} \cup Workers
NoThread == -1

Tokens == {"tok1", "tok2"}
\* The callers' tokens where one token is enough.
OneToken == {"tok1"}
NoToken == ""
\* The (awsKey, awsSecret, awsSession) triples callers pass.
Inputs ==
  { [awsKey |-> "AK1", awsSecret |-> "SK1", awsSession |-> "ST1"],
    [awsKey |-> "AK2", awsSecret |-> "SK2", awsSession |-> "ST2"] }
NoInput == [awsKey |-> "", awsSecret |-> "", awsSession |-> ""]

Fields == {"AwsKey", "AwsSecret", "AwsSession", "Expiration"}

\* Mutant: the expiration is time.Now() itself, Add(16 * time.Minute) forgotten.
Credentials_NoAdd(awsKey, awsSecret, awsSession, t) ==
  [AwsKey |-> awsKey, AwsSecret |-> awsSecret, AwsSession |-> awsSession,
   Expiration |-> t]

\* The composite literal Credentials{...} of SetCredentials.
Credentials(awsKey, awsSecret, awsSession, t) ==
  [AwsKey |-> awsKey, AwsSecret |-> awsSecret, AwsSession |-> awsSession,
   Expiration |-> t + ExpirationMinutes]

\* Go's zero value of the struct: what a new map slot holds before the copy.
ZeroCredentials ==
  [AwsKey |-> "", AwsSecret |-> "", AwsSession |-> "", Expiration |-> 0]

\* The error values; Nil is Go's nil error.
Nil == ""
ErrCredentialsNotFound == "credentials not found for the provided token"
\* fmt.Errorf("there are %d set of credentials", mapSize)
ErrSetOfCredentials(n) == "there are " \o ToString(n) \o " set of credentials"

\* What a call returns: (*Credentials, error).  ptr is the struct the pointer
\* refers to, and isNil says that the pointer is nil.
Returns(ptr, isNil, err) == [ptr |-> ptr, isNil |-> isNil, err |-> err]
NoResult == Returns(ZeroCredentials, TRUE, Nil)

\* History: the identity of one write (its arguments and the time.Now() it
\* read); two writes of the same values at the same time are one.
NoWrite == [in |-> NoInput, at |-> -1]
WriteId(in, at) == [in |-> in, at |-> at]
NoOrigin == [f \in Fields |-> NoWrite]

VARIABLES
  credentials,   \* c.credentials: a function from the tokens it holds to Credentials
  contentMutex,  \* c.contentMutex: NoThread (unlocked) or the thread whose Lock returned
  serviceMutex,  \* c.serviceMutex: likewise
  currentState,  \* c.currentState
  now,           \* the wall clock time.Now() reads, in minutes
  fatal,         \* the runtime has thrown a fatal error: the process is gone
  pc,            \* each thread's position
  token,         \* each thread's token argument / local, from its first use on
  args,          \* each thread's (awsKey, awsSecret, awsSession), from their first use on
  lit,           \* the evaluated composite literal of SetCredentials
  mapSize,       \* UpdateCredentials' local
  result,        \* the value the call in progress is returning
  \* history variables
  origin,        \* per token and field: the write the stored field came from
  resOrigin,     \* per thread: the origin of each field of result
  lastWrite,     \* per token: the latest write begun
  wid,           \* per thread: the write it is performing
  inUpdate,      \* per thread: SetCredentials was called by UpdateCredentials
  rotated,       \* the tokens whose latest write the rotator began between a
                 \* BlockService return and the next UnblockService call
  waits,         \* per thread in GetCredentials: "blocked" when the call started
                 \* after a BlockService return with no UnblockService call since,
                 \* "released" once UnblockService has then been called,
                 \* "reblocked" once BlockService has then returned again, else "no"
  blockRet       \* BlockService calls returned since the last UnblockService call (capped at 2)

vars ==
  << credentials, contentMutex, serviceMutex, currentState, now, fatal, pc,
     token, args, lit, mapSize, result, origin, resOrigin, lastWrite, wid,
     inUpdate, rotated, waits, blockRet >>

shared == << credentials, contentMutex, serviceMutex, currentState >>
locals == << token, args, lit, mapSize, result >>
hist == << origin, resOrigin, lastWrite, wid, inUpdate, rotated, waits, blockRet >>

\* NewCredentialsService
Init ==
  /\ credentials = [k \in {} |-> ZeroCredentials]
  /\ contentMutex = NoThread
  /\ serviceMutex = NoThread
  /\ currentState = UNBLOCKED
  /\ now = 0
  /\ fatal = FALSE
  /\ pc = [t \in Threads |-> "idle"]
  /\ token = [t \in Threads |-> NoToken]
  /\ args = [t \in Threads |-> NoInput]
  /\ lit = [t \in Threads |-> ZeroCredentials]
  /\ mapSize = [t \in Threads |-> 0]
  /\ result = [t \in Threads |-> NoResult]
  /\ origin = [k \in Tokens |-> NoOrigin]
  /\ resOrigin = [t \in Threads |-> NoOrigin]
  /\ lastWrite = [k \in Tokens |-> NoWrite]
  /\ wid = [t \in Threads |-> NoWrite]
  /\ inUpdate = [t \in Threads |-> FALSE]
  /\ rotated = {}
  /\ waits = [t \in Threads |-> "no"]
  /\ blockRet = 0

Min(a, b) == IF a < b THEN a ELSE b
Keys == DOMAIN credentials

\* The thread's frame after a return: its locals are gone.
Return(t) ==
  /\ pc' = [pc EXCEPT ![t] = "idle"]
  /\ token' = [token EXCEPT ![t] = NoToken]
  /\ args' = [args EXCEPT ![t] = NoInput]
  /\ lit' = [lit EXCEPT ![t] = ZeroCredentials]
  /\ mapSize' = [mapSize EXCEPT ![t] = 0]
  /\ result' = [result EXCEPT ![t] = NoResult]
  /\ resOrigin' = [resOrigin EXCEPT ![t] = NoOrigin]
  /\ wid' = [wid EXCEPT ![t] = NoWrite]
  /\ inUpdate' = [inUpdate EXCEPT ![t] = FALSE]
  /\ waits' = [waits EXCEPT ![t] = "no"]

Goto(t, label) == pc' = [pc EXCEPT ![t] = label]

\* sync.Mutex.Lock returns only when the mutex is unlocked.
CanLock(m) == m = NoThread

\* sync.Mutex.Unlock: unlocking an unlocked mutex is the runtime's
\* "fatal error: sync: unlock of unlocked mutex"; any goroutine may unlock.
UnlockContent ==
  IF contentMutex = NoThread
    THEN fatal' = TRUE /\ contentMutex' = contentMutex
    ELSE fatal' = fatal /\ contentMutex' = NoThread

UnlockService ==
  IF serviceMutex = NoThread
    THEN fatal' = TRUE /\ serviceMutex' = serviceMutex
    ELSE fatal' = fatal /\ serviceMutex' = NoThread

\* ------------------------------------------------------- SetCredentials
\* The call.  The arguments are bound in SetAssign, where the callee first
\* reads them: until then nothing in the program depends on their values.
CallSetCredentials(t) ==
  /\ ~fatal /\ pc[t] = "idle"
  /\ Goto(t, "set_lock")
  /\ UNCHANGED << shared, now, fatal, locals, hist >>

\* Mutant: the writer also waits for the service gate to be free.
SetLock_BehindGate(t) ==
  /\ ~fatal /\ pc[t] = "set_lock"
  /\ CanLock(serviceMutex) /\ CanLock(contentMutex)
  /\ contentMutex' = t
  /\ Goto(t, "set_assign")
  /\ UNCHANGED << credentials, serviceMutex, currentState, now, fatal, locals, hist >>

\* c.contentMutex.Lock()
SetLock(t) ==
  /\ ~fatal /\ pc[t] = "set_lock"
  /\ CanLock(contentMutex)
  /\ contentMutex' = t
  /\ Goto(t, "set_assign")
  /\ UNCHANGED << credentials, serviceMutex, currentState, now, fatal, locals, hist >>

\* Mutant: the assignment replaces the whole map by one holding this token alone.
SetAssign_ReplacesMap(t, K) ==
  /\ ~fatal /\ pc[t] = "set_assign"
  /\ \E k \in (IF inUpdate[t] THEN {token[t]} ELSE K), in \in Inputs :
       /\ token' = [token EXCEPT ![t] = k]
       /\ args' = [args EXCEPT ![t] = in]
       /\ lit' = [lit EXCEPT ![t] =
            Credentials(in.awsKey, in.awsSecret, in.awsSession, now)]
       /\ credentials' =
            [x \in {k} |-> IF k \in Keys THEN credentials[k] ELSE ZeroCredentials]
       /\ wid' = [wid EXCEPT ![t] = WriteId(in, now)]
       /\ lastWrite' = [lastWrite EXCEPT ![k] = WriteId(in, now)]
       /\ rotated' = IF t = Rotator /\ blockRet > 0
                       THEN rotated \cup {k} ELSE rotated \ {k}
  /\ Goto(t, "AwsKey")
  /\ UNCHANGED << contentMutex, serviceMutex, currentState, now, fatal,
                  mapSize, result, origin, resOrigin, inUpdate, waits, blockRet >>

\* The right-hand side is evaluated (time.Now() is read), then mapassign
\* finds the token's slot, adding the key with a zero value when it is new.
\* Called from UpdateCredentials the token is the one its loop left;
\* otherwise the caller passed one of K.
SetAssign(t, K) ==
  /\ ~fatal /\ pc[t] = "set_assign"
  /\ \E k \in (IF inUpdate[t] THEN {token[t]} ELSE K), in \in Inputs :
       /\ token' = [token EXCEPT ![t] = k]
       /\ args' = [args EXCEPT ![t] = in]
       /\ lit' = [lit EXCEPT ![t] =
            Credentials(in.awsKey, in.awsSecret, in.awsSession, now)]
       /\ credentials' =
            IF k \notin Keys
              THEN [x \in Keys \cup {k} |->
                      IF x = k THEN ZeroCredentials ELSE credentials[x]]
              ELSE credentials
       /\ wid' = [wid EXCEPT ![t] = WriteId(in, now)]
       /\ lastWrite' = [lastWrite EXCEPT ![k] = WriteId(in, now)]
       /\ rotated' = IF t = Rotator /\ blockRet > 0
                       THEN rotated \cup {k} ELSE rotated \ {k}
  /\ Goto(t, "AwsKey")
  /\ UNCHANGED << contentMutex, serviceMutex, currentState, now, fatal,
                  mapSize, result, origin, resOrigin, inUpdate, waits, blockRet >>

\* The struct is copied into the slot a field at a time; while field f is
\* the next to be copied the thread's position is named f.
SetCopyField(t, f, next) ==
  /\ ~fatal /\ pc[t] = f
  /\ credentials' = [credentials EXCEPT ![token[t]][f] = lit[t][f]]
  /\ origin' = [origin EXCEPT ![token[t]][f] = wid[t]]
  /\ Goto(t, next)
  /\ UNCHANGED << contentMutex, serviceMutex, currentState, now, fatal, locals,
                  resOrigin, lastWrite, wid, inUpdate, rotated, waits, blockRet >>

\* Mutant: the expiration of an entry is not written.
SetCopyExpiration_Skip(t) ==
  /\ ~fatal /\ pc[t] = "Expiration"
  /\ Goto(t, "set_unlock")
  /\ UNCHANGED << shared, now, fatal, locals, hist >>

SetCopyAwsKey(t) == SetCopyField(t, "AwsKey", "AwsSecret")
SetCopyAwsSecret(t) == SetCopyField(t, "AwsSecret", "AwsSession")
SetCopyAwsSession(t) == SetCopyField(t, "AwsSession", "Expiration")
SetCopyExpiration(t) == SetCopyField(t, "Expiration", "set_unlock")

\* defer c.contentMutex.Unlock(), then the return: to the caller, or into
\* UpdateCredentials, whose next statement is "return nil".
SetUnlock(t) ==
  /\ ~fatal /\ pc[t] = "set_unlock"
  /\ UnlockContent
  /\ IF inUpdate[t]
       THEN /\ Goto(t, "upd_return")
            /\ result' = [result EXCEPT ![t] = Returns(ZeroCredentials, TRUE, Nil)]
            /\ UNCHANGED << token, args, lit, mapSize, resOrigin, wid, inUpdate, waits >>
       ELSE Return(t)
  /\ UNCHANGED << credentials, serviceMutex, currentState, now, origin,
                  lastWrite, rotated, blockRet >>

\* ------------------------------------------------------- GetCredentials
\* The call; the token is bound in GetLookup, its first use.
CallGetCredentials(t) ==
  /\ ~fatal /\ pc[t] = "idle"
  /\ Goto(t, "get_lockS")
  /\ waits' = [waits EXCEPT ![t] = IF blockRet > 0 THEN "blocked" ELSE "no"]
  /\ UNCHANGED << shared, now, fatal, locals, origin, resOrigin, lastWrite,
                  wid, inUpdate, rotated, blockRet >>

\* Mutant: GetCredentials does not take the service gate.
GetLockService_NoGate(t) ==
  /\ ~fatal /\ pc[t] = "get_lockS"
  /\ Goto(t, "get_lockC")
  /\ UNCHANGED << shared, now, fatal, locals, hist >>

\* c.serviceMutex.Lock()
GetLockService(t) ==
  /\ ~fatal /\ pc[t] = "get_lockS"
  /\ CanLock(serviceMutex)
  /\ serviceMutex' = t
  /\ Goto(t, "get_lockC")
  /\ UNCHANGED << credentials, contentMutex, currentState, now, fatal, locals, hist >>

\* Mutant: GetCredentials reads the map without contentMutex.
GetLockContent_NoLock(t) ==
  /\ ~fatal /\ pc[t] = "get_lockC"
  /\ Goto(t, "get_lookup")
  /\ UNCHANGED << shared, now, fatal, locals, hist >>

\* c.contentMutex.Lock()
GetLockContent(t) ==
  /\ ~fatal /\ pc[t] = "get_lockC"
  /\ CanLock(contentMutex)
  /\ contentMutex' = t
  /\ Goto(t, "get_lookup")
  /\ UNCHANGED << credentials, serviceMutex, currentState, now, fatal, locals, hist >>

\* Mutant: the lookup's ok is ignored: a missing token yields the zero struct.
GetLookup_IgnoresOk(t, K) ==
  /\ ~fatal /\ pc[t] = "get_lookup"
  /\ \E k \in K :
       /\ token' = [token EXCEPT ![t] = k]
       /\ result' = [result EXCEPT ![t] =
            Returns(IF k \in Keys THEN credentials[k] ELSE ZeroCredentials,
                    FALSE, Nil)]
       /\ resOrigin' = [resOrigin EXCEPT ![t] = origin[k]]
  /\ Goto(t, "get_unlockC")
  /\ UNCHANGED << shared, now, fatal, args, lit, mapSize, origin, lastWrite,
                  wid, inUpdate, rotated, waits, blockRet >>

\* credentials, ok := c.credentials[token]; return &credentials, nil or
\* return nil, ErrCredentialsNotFound.  The value returned is a copy.
\* The caller passed one of K.
GetLookup(t, K) ==
  /\ ~fatal /\ pc[t] = "get_lookup"
  /\ \E k \in K :
       /\ token' = [token EXCEPT ![t] = k]
       /\ result' = [result EXCEPT ![t] =
            IF k \in Keys
              THEN Returns(credentials[k], FALSE, Nil)
              ELSE Returns(ZeroCredentials, TRUE, ErrCredentialsNotFound)]
       /\ resOrigin' = [resOrigin EXCEPT ![t] = origin[k]]
  /\ Goto(t, "get_unlockC")
  /\ UNCHANGED << shared, now, fatal, args, lit, mapSize, origin, lastWrite,
                  wid, inUpdate, rotated, waits, blockRet >>

\* defer c.contentMutex.Unlock()
GetUnlockContent(t) ==
  /\ ~fatal /\ pc[t] = "get_unlockC"
  /\ UnlockContent
  /\ Goto(t, "get_unlockS")
  /\ UNCHANGED << credentials, serviceMutex, currentState, now, locals, hist >>

\* Mutant: GetCredentials returns with the service gate still locked.
GetUnlockService_KeepsGate(t) ==
  /\ ~fatal /\ pc[t] = "get_unlockS"
  /\ Return(t)
  /\ UNCHANGED << shared, now, fatal, origin, lastWrite, rotated, blockRet >>

\* defer c.serviceMutex.Unlock(), then the return.
GetUnlockService(t) ==
  /\ ~fatal /\ pc[t] = "get_unlockS"
  /\ UnlockService
  /\ Return(t)
  /\ UNCHANGED << credentials, contentMutex, currentState, now, origin,
                  lastWrite, rotated, blockRet >>

\* --------------------------------------------------------- BlockService
CallBlockService(t) ==
  /\ ~fatal /\ pc[t] = "idle"
  /\ Goto(t, "blk_check")
  /\ UNCHANGED << shared, now, fatal, locals, hist >>

\* History at a return of BlockService.
BlockReturned(t) ==
  /\ blockRet' = Min(blockRet + 1, 2)
  /\ waits' = [u \in Threads |->
       IF u = t THEN "no"
       ELSE IF waits[u] = "released" THEN "reblocked" ELSE waits[u]]

\* Mutant: BlockService does not look at the state.
BlkCheck_NoCheck(t) ==
  /\ ~fatal /\ pc[t] = "blk_check"
  /\ Goto(t, "blk_lockS")
  /\ UNCHANGED << shared, now, fatal, locals, hist >>

\* if c.currentState == BLOCKED { return }: read without a lock.
BlkCheck(t) ==
  /\ ~fatal /\ pc[t] = "blk_check"
  /\ IF currentState = BLOCKED
       THEN /\ Goto(t, "idle")
            /\ BlockReturned(t)
            /\ UNCHANGED << locals, resOrigin, wid, inUpdate >>
       ELSE /\ Goto(t, "blk_lockS")
            /\ UNCHANGED << locals, resOrigin, wid, inUpdate, waits, blockRet >>
  /\ UNCHANGED << shared, now, fatal, origin, lastWrite, rotated >>

\* c.serviceMutex.Lock()
BlkLockService(t) ==
  /\ ~fatal /\ pc[t] = "blk_lockS"
  /\ CanLock(serviceMutex)
  /\ serviceMutex' = t
  /\ Goto(t, "blk_lockC")
  /\ UNCHANGED << credentials, contentMutex, currentState, now, fatal, locals, hist >>

\* c.contentMutex.Lock()
BlkLockContent(t) ==
  /\ ~fatal /\ pc[t] = "blk_lockC"
  /\ CanLock(contentMutex)
  /\ contentMutex' = t
  /\ Goto(t, "blk_set")
  /\ UNCHANGED << credentials, serviceMutex, currentState, now, fatal, locals, hist >>

\* c.currentState = BLOCKED
BlkSetState(t) ==
  /\ ~fatal /\ pc[t] = "blk_set"
  /\ currentState' = BLOCKED
  /\ Goto(t, "blk_unlockC")
  /\ UNCHANGED << credentials, contentMutex, serviceMutex, now, fatal, locals, hist >>

\* defer c.contentMutex.Unlock(), then the return; serviceMutex stays locked.
BlkUnlockContent(t) ==
  /\ ~fatal /\ pc[t] = "blk_unlockC"
  /\ UnlockContent
  /\ Goto(t, "idle")
  /\ BlockReturned(t)
  /\ UNCHANGED << credentials, serviceMutex, currentState, now, locals, origin,
                  resOrigin, lastWrite, wid, inUpdate, rotated >>

\* ------------------------------------------------------- UnblockService
CallUnblockService(t) ==
  /\ ~fatal /\ pc[t] = "idle"
  /\ Goto(t, "unb_check")
  /\ blockRet' = 0
  /\ waits' = [u \in Threads |->
       IF waits[u] = "blocked" THEN "released" ELSE waits[u]]
  /\ UNCHANGED << shared, now, fatal, locals, origin, resOrigin, lastWrite,
                  wid, inUpdate, rotated >>

\* Mutant: UnblockService does not look at the state.
UnbCheck_NoCheck(t) ==
  /\ ~fatal /\ pc[t] = "unb_check"
  /\ Goto(t, "unb_lockC")
  /\ UNCHANGED << shared, now, fatal, locals, hist >>

\* if c.currentState == UNBLOCKED { return }: read without a lock.
UnbCheck(t) ==
  /\ ~fatal /\ pc[t] = "unb_check"
  /\ IF currentState = UNBLOCKED
       THEN Return(t)
       ELSE /\ Goto(t, "unb_lockC")
            /\ UNCHANGED << locals, resOrigin, wid, inUpdate, waits >>
  /\ UNCHANGED << shared, now, fatal, origin, lastWrite, rotated, blockRet >>

\* c.contentMutex.Lock()
UnbLockContent(t) ==
  /\ ~fatal /\ pc[t] = "unb_lockC"
  /\ CanLock(contentMutex)
  /\ contentMutex' = t
  /\ Goto(t, "unb_set")
  /\ UNCHANGED << credentials, serviceMutex, currentState, now, fatal, locals, hist >>

\* c.currentState = UNBLOCKED
UnbSetState(t) ==
  /\ ~fatal /\ pc[t] = "unb_set"
  /\ currentState' = UNBLOCKED
  /\ Goto(t, "unb_unlockS")
  /\ UNCHANGED << credentials, contentMutex, serviceMutex, now, fatal, locals, hist >>

\* Mutant: UnblockService leaves the service gate locked.
UnbUnlockService_Skip(t) ==
  /\ ~fatal /\ pc[t] = "unb_unlockS"
  /\ Goto(t, "unb_unlockC")
  /\ UNCHANGED << shared, now, fatal, locals, hist >>

\* c.serviceMutex.Unlock()
UnbUnlockService(t) ==
  /\ ~fatal /\ pc[t] = "unb_unlockS"
  /\ UnlockService
  /\ Goto(t, "unb_unlockC")
  /\ UNCHANGED << credentials, contentMutex, currentState, now, locals, hist >>

\* defer c.contentMutex.Unlock(), then the return.
UnbUnlockContent(t) ==
  /\ ~fatal /\ pc[t] = "unb_unlockC"
  /\ UnlockContent
  /\ Return(t)
  /\ UNCHANGED << credentials, serviceMutex, currentState, now, origin,
                  lastWrite, rotated, blockRet >>

\* ---------------------------------------------------- UpdateCredentials
\* The call; the arguments are bound where SetCredentials reads them.
CallUpdateCredentials(t) ==
  /\ ~fatal /\ pc[t] = "idle"
  /\ Goto(t, "upd_len")
  /\ UNCHANGED << shared, now, fatal, locals, hist >>

\* mapSize := len(c.credentials): read without a lock.
UpdLen(t) ==
  /\ ~fatal /\ pc[t] = "upd_len"
  /\ mapSize' = [mapSize EXCEPT ![t] = Cardinality(Keys)]
  /\ Goto(t, "upd_check")
  /\ UNCHANGED << shared, now, fatal, token, args, lit, result, hist >>

\* Mutant: only more than one set of credentials is refused (mapSize > 1).
UpdCheck_IgnoresEmpty(t) ==
  /\ ~fatal /\ pc[t] = "upd_check"
  /\ IF mapSize[t] > 1
       THEN /\ result' = [result EXCEPT ![t] =
                 Returns(ZeroCredentials, TRUE, ErrSetOfCredentials(mapSize[t]))]
            /\ Goto(t, "upd_return")
       ELSE /\ Goto(t, "upd_scan")
            /\ UNCHANGED result
  /\ UNCHANGED << shared, now, fatal, token, args, lit, mapSize, hist >>

\* if mapSize != 1 { return fmt.Errorf(...) }
UpdCheck(t) ==
  /\ ~fatal /\ pc[t] = "upd_check"
  /\ IF mapSize[t] # 1
       THEN /\ result' = [result EXCEPT ![t] =
                 Returns(ZeroCredentials, TRUE, ErrSetOfCredentials(mapSize[t]))]
            /\ Goto(t, "upd_return")
       ELSE /\ Goto(t, "upd_scan")
            /\ UNCHANGED result
  /\ UNCHANGED << shared, now, fatal, token, args, lit, mapSize, hist >>

\* Mutant: the sole token is found but SetCredentials is not called.
UpdScan_NoSet(t) ==
  /\ ~fatal /\ pc[t] = "upd_scan"
  /\ \E k \in (IF Keys = {} THEN {NoToken} ELSE Keys) :
       token' = [token EXCEPT ![t] = k]
  /\ inUpdate' = [inUpdate EXCEPT ![t] = TRUE]
  /\ Goto(t, "upd_return")
  /\ UNCHANGED << shared, now, fatal, args, lit, mapSize, result, origin,
                  resOrigin, lastWrite, wid, rotated, waits, blockRet >>

\* for key := range c.credentials { token = key }: without a lock.  The
\* iteration order of a map is unspecified, so token ends as any of the keys
\* (as "" when there is none).  Iterating while another goroutine is inside
\* mapassign is a data race: the runtime either throws "concurrent map
\* iteration and map write" or the loop runs on.  Then SetCredentials is called.
UpdScan(t) ==
  /\ ~fatal /\ pc[t] = "upd_scan"
  /\ \/ /\ \E k \in (IF Keys = {} THEN {NoToken} ELSE Keys) :
             token' = [token EXCEPT ![t] = k]
        /\ inUpdate' = [inUpdate EXCEPT ![t] = TRUE]
        /\ Goto(t, "set_lock")
        /\ UNCHANGED fatal
     \/ /\ \E u \in Threads \ {t} : pc[u] = "set_assign"
        /\ fatal' = TRUE
        /\ UNCHANGED << pc, token, inUpdate >>
  /\ UNCHANGED << shared, now, args, lit, mapSize, result, origin, resOrigin,
                  lastWrite, wid, rotated, waits, blockRet >>

\* Mutant: UpdateCredentials ends the rotation itself: it sets the state UNBLOCKED.
UpdReturn_Unblocks(t) ==
  /\ ~fatal /\ pc[t] = "upd_return"
  /\ currentState' = UNBLOCKED
  /\ Return(t)
  /\ UNCHANGED << credentials, contentMutex, serviceMutex, now, fatal, origin,
                  lastWrite, rotated, blockRet >>

\* return nil / return the error
UpdReturn(t) ==
  /\ ~fatal /\ pc[t] = "upd_return"
  /\ Return(t)
  /\ UNCHANGED << shared, now, fatal, origin, lastWrite, rotated, blockRet >>

\* ----------------------------------------------------------------- time
Tick ==
  /\ ~fatal /\ now < MaxTime
  /\ now' = now + 1
  /\ UNCHANGED << shared, fatal, pc, locals, hist >>

\* ------------------------------------------------------- specifications
\* One statement of a SetCredentials, GetCredentials, BlockService or
\* UnblockService call in progress, the callers' tokens being K.
StepGate(t, K) ==
  \/ SetLock(t) \/ SetAssign(t, K) \/ SetCopyAwsKey(t) \/ SetCopyAwsSecret(t)
  \/ SetCopyAwsSession(t) \/ SetCopyExpiration(t) \/ SetUnlock(t)
  \/ GetLockService(t) \/ GetLockContent(t) \/ GetLookup(t, K)
  \/ GetUnlockContent(t) \/ GetUnlockService(t)
  \/ BlkCheck(t) \/ BlkLockService(t) \/ BlkLockContent(t) \/ BlkSetState(t)
  \/ BlkUnlockContent(t)
  \/ UnbCheck(t) \/ UnbLockContent(t) \/ UnbSetState(t) \/ UnbUnlockService(t)
  \/ UnbUnlockContent(t)

\* One statement of an UpdateCredentials call in progress.
StepUpdate(t) == UpdLen(t) \/ UpdCheck(t) \/ UpdScan(t) \/ UpdReturn(t)

\* The workers read and write at any time.
WorkerCalls == \E t \in Workers : CallGetCredentials(t) \/ CallSetCredentials(t)

\* One rotation task blocks, writes and unblocks, in any order.
RotatorCalls ==
  \/ CallBlockService(Rotator) \/ CallUnblockService(Rotator)
  \/ CallSetCredentials(Rotator)

Next ==
  \/ WorkerCalls
  \/ RotatorCalls
  \/ CallUpdateCredentials(Rotator)
  \/ \E t \in Threads : StepGate(t, Tokens) \/ StepUpdate(t)
  \/ Tick

Spec == Init /\ [][Next]_vars

\* The calls of SetCredentials, GetCredentials, BlockService and
\* UnblockService alone, all for one token and with the clock standing
\* still: what decides whether a call returns is the two mutexes.
NextGate ==
  \/ WorkerCalls
  \/ RotatorCalls
  \/ \E t \in Threads : StepGate(t, OneToken)

\* The scheduler runs every goroutine that can run, and a sync.Mutex that is
\* unlocked again and again is handed to each waiter in the end (its
\* starvation mode): strong fairness of every thread's statements.  Nothing
\* makes a caller call.
FairSteps ==
  Init /\ [][NextGate]_vars /\ \A t \in Threads : SF_vars(StepGate(t, OneToken))

\* A rotation task that follows every BlockService with an UnblockService.
RotatorUnblocks == CallUnblockService(Rotator) /\ blockRet > 0

FairSpec == FairSteps /\ SF_vars(RotatorUnblocks)

\* The rotation of section 6 with readers alone beside it: the rotation task
\* is the only writer (SetCredentials, UpdateCredentials, one call at a
\* time), the workers call GetCredentials.
NextRotation ==
  \/ \E t \in Workers : CallGetCredentials(t)
  \/ RotatorCalls
  \/ CallUpdateCredentials(Rotator)
  \/ \E t \in Threads : StepGate(t, Tokens) \/ StepUpdate(t)
  \/ Tick

SpecRotation == Init /\ [][NextRotation]_vars

\* Every thread calls any of SetCredentials, GetCredentials, BlockService
\* and UnblockService at any time: several goroutines block and unblock.
NextAny ==
  \E t \in Threads :
    \/ CallGetCredentials(t) \/ CallSetCredentials(t)
    \/ CallBlockService(t) \/ CallUnblockService(t)
    \/ StepGate(t, OneToken)

SpecAny == Init /\ [][NextAny]_vars

\* One statement of a BlockService, an UnblockService, a GetCredentials call.
StepBlock(t) ==
  \/ BlkCheck(t) \/ BlkLockService(t) \/ BlkLockContent(t) \/ BlkSetState(t)
  \/ BlkUnlockContent(t)

StepUnblock(t) ==
  \/ UnbCheck(t) \/ UnbLockContent(t) \/ UnbSetState(t) \/ UnbUnlockService(t)
  \/ UnbUnlockContent(t)

StepGet(t, K) ==
  \/ GetLockService(t) \/ GetLockContent(t) \/ GetLookup(t, K)
  \/ GetUnlockContent(t) \/ GetUnlockService(t)

\* The scenario of two concurrent BlockService calls.  With nothing in
\* progress, the state UNBLOCKED and the gate free, every worker calls
\* BlockService before any of them runs a statement.
AllIdle == \A t \in Threads : pc[t] = "idle"

StartBlocks ==
  /\ ~fatal /\ AllIdle
  /\ currentState = UNBLOCKED /\ serviceMutex = NoThread /\ blockRet = 0
  /\ pc' = [t \in Threads |-> IF t \in Workers THEN "blk_check" ELSE pc[t]]
  /\ UNCHANGED << shared, now, fatal, locals, hist >>

\* The workers whose BlockService call has returned; blockRet counts the
\* returns since the last UnblockService call, so the two differ exactly
\* when UnblockService has been called after a return.
Returned == {t \in Workers : pc[t] \notin {"blk_check", "blk_lockS", "blk_lockC",
                                            "blk_set", "blk_unlockC"}}
UnblockCalled == blockRet < Cardinality(Returned)

\* The rotator calls UnblockService once, after the first BlockService
\* return; both calls have read the state by then.
UnblockAfterFirst ==
  /\ Returned # {} /\ ~UnblockCalled
  /\ \A t \in Workers : pc[t] # "blk_check"
  /\ CallUnblockService(Rotator)

\* Once the calls have returned, any thread calls GetCredentials.
GetAfterAll(t) ==
  /\ Returned = Workers /\ UnblockCalled
  /\ pc[Rotator] \notin {"unb_check", "unb_lockC", "unb_set", "unb_unlockS",
                          "unb_unlockC"}
  /\ CallGetCredentials(t)

NextTwoBlocks ==
  \/ StartBlocks
  \/ UnblockAfterFirst
  \/ \E t \in Threads : GetAfterAll(t)
  \/ \E t \in Workers : StepBlock(t)
  \/ StepUnblock(Rotator)
  \/ \E t \in Threads : StepGet(t, OneToken)

SpecTwoBlocks == Init /\ [][NextTwoBlocks]_vars

\* ------------------------------------------------------------- claims
\* The credential a write with identity w stores: its three arguments, and
\* the time it read plus 16 minutes.
ValueOf(w) ==
  [AwsKey |-> w.in.awsKey, AwsSecret |-> w.in.awsSecret,
   AwsSession |-> w.in.awsSession, Expiration |-> w.at + 16]

\* GetCredentials has its return value (the deferred unlocks are running).
Returning(t) == pc[t] \in {"get_unlockC", "get_unlockS"}

\* C1: a GetCredentials call that started after a BlockService return, with
\* no UnblockService call made since, does not return; writes by the
\* rotator and the workers do not change that.
C1_BlockedGetDoesNotReturn ==
  [][\A t \in Threads :
       (pc[t] = "get_unlockS" /\ pc'[t] = "idle") => waits[t] # "blocked"]_vars

\* A GetCredentials call that waited through a block is returning after the
\* UnblockService call, the rotator having written another token meanwhile.
C1_Witness ==
  \E t \in Workers :
    /\ pc[t] = "get_unlockS" /\ waits[t] = "released"
    /\ \E k \in rotated : k # token[t]

\* C2: a GetCredentials call that waited through a block in which the
\* rotator wrote its token (and nobody wrote it since) returns exactly what
\* the rotator wrote: every field of that write, and a nil error.
C2_RotationVisible ==
  \A t \in Threads :
    (Returning(t) /\ waits[t] = "released" /\ token[t] \in rotated)
      => result[t] = Returns(ValueOf(lastWrite[token[t]]), FALSE, Nil)

\* Such a call is returning the rotator's write.
C2_Witness ==
  \E t \in Workers :
    /\ pc[t] = "get_unlockS" /\ waits[t] = "released" /\ token[t] \in rotated
    /\ ~result[t].isNil /\ result[t].ptr.AwsKey = "AK2"

\* C3: every GetCredentials call that started during a block returns once
\* UnblockService has been called, unless BlockService returns again first;
\* one UnblockService call serves all of them.
C3_ReleasedGetsReturn ==
  \A t \in Workers :
    (waits[t] = "released") ~> (pc[t] = "idle" \/ waits[t] = "reblocked")

\* Two GetCredentials calls that started during the same block have been
\* released by one UnblockService call; one of them is returning.
C3_Witness ==
  \E t \in Workers, u \in Workers :
    /\ t # u /\ waits[t] = "released" /\ waits[u] = "released"
    /\ pc[t] = "get_unlockS" /\ pc[u] = "get_lockS"

\* SetCredentials has copied its literal into the map.
Stored(t) == token[t] \in Keys /\ credentials[token[t]] = ValueOf(wid[t])

\* C4: SetCredentials waits for contentMutex alone, whatever serviceMutex
\* is; a call waiting while a block is in force gets to its return with its
\* write in the map, and returns, whether or not UnblockService is ever called.
C4_WritersNotBlocked ==
  /\ [](\A t \in Threads :
          (pc[t] = "set_lock" /\ contentMutex = NoThread) => ENABLED SetLock(t))
  /\ \A t \in Threads :
       /\ (pc[t] = "set_lock" /\ blockRet > 0) ~> (pc[t] = "set_unlock" /\ Stored(t))
       /\ (pc[t] = "set_unlock") ~> (pc[t] = "idle")

\* A worker's write is in the map while the block is in force and a
\* GetCredentials call waits at the gate.
C4_Witness ==
  \E t \in Workers, u \in Workers :
    /\ blockRet > 0 /\ pc[t] = "set_unlock" /\ Stored(t)
    /\ pc[u] = "get_lockS" /\ waits[u] = "blocked"

\* C5: whenever a call is in progress some thread can take a step, or the
\* rotator owes the UnblockService call that follows its BlockService; and
\* every call returns.
C5_NoDeadlock ==
  /\ []((\E t \in Threads : pc[t] # "idle")
          => \/ ENABLED (\E t \in Threads : StepGate(t, OneToken))
             \/ ENABLED RotatorUnblocks)
  /\ \A t \in Threads : (pc[t] # "idle") ~> (pc[t] = "idle")

\* All three threads are in a call: the rotator waits for contentMutex to
\* unblock, a writer holds it, a reader waits at the gate.
C5_Witness ==
  \E t \in Workers, u \in Workers :
    /\ pc[Rotator] = "unb_lockC" /\ contentMutex = t /\ pc[t] = "AwsKey"
    /\ pc[u] = "get_lockS"

\* C6: every credential GetCredentials returns has all four fields from one
\* write to that token.
C6_NoTornRead ==
  \A t \in Threads :
    (Returning(t) /\ ~result[t].isNil)
      => \E f \in Fields :
           /\ resOrigin[t][f] # NoWrite
           /\ \A g \in Fields : resOrigin[t][g] = resOrigin[t][f]
           /\ result[t].ptr = ValueOf(resOrigin[t][f])

\* A credential is being returned while another thread is in the middle of
\* copying a different write into the same token's slot.
C6_Witness ==
  \E t \in Threads, u \in Threads :
    /\ pc[t] = "get_unlockS" /\ ~result[t].isNil
    /\ pc[u] \in {"AwsSecret", "AwsSession", "Expiration"}
    /\ token[u] = token[t] /\ wid[u] # resOrigin[t]["AwsKey"]

\* C7: a BlockService call made after one has returned, with no
\* UnblockService call in between, returns from its first statement: it
\* waits on no lock, and the state (BLOCKED), both mutexes and the map stay
\* as they are.
C7_SecondBlockIsNoOp ==
  [][\A t \in Threads :
       (blockRet > 0 /\ pc[t] = "blk_check" /\ pc'[t] # "blk_check")
         => /\ pc'[t] = "idle"
            /\ currentState = BLOCKED /\ currentState' = BLOCKED
            /\ serviceMutex = t /\ serviceMutex' = t
            /\ contentMutex' = contentMutex
            /\ credentials' = credentials]_vars

\* A second BlockService has returned with no UnblockService call in between.
C7_Witness == blockRet = 2 /\ pc[Rotator] = "idle"

\* C8: an UnblockService call that finds the state UNBLOCKED returns from its
\* first statement: it waits on no lock, unlocks no mutex (whoever holds
\* serviceMutex keeps it), and the state and the map stay as they are.
C8_UnblockWhenUnblockedIsNoOp ==
  [][\A t \in Threads :
       (currentState = UNBLOCKED /\ pc[t] = "unb_check" /\ pc'[t] # "unb_check")
         => /\ pc'[t] = "idle"
            /\ currentState' = UNBLOCKED
            /\ serviceMutex' = serviceMutex
            /\ contentMutex' = contentMutex
            /\ credentials' = credentials
            /\ ~fatal']_vars

\* UnblockService is at its check with the state UNBLOCKED while a
\* GetCredentials call holds serviceMutex.
C8_Witness ==
  /\ pc[Rotator] = "unb_check" /\ currentState = UNBLOCKED
  /\ \E t \in Workers : serviceMutex = t

\* C9: GetCredentials for a token nobody has written returns a nil pointer
\* and ErrCredentialsNotFound; that is its only error, returned only then;
\* and the lookup leaves the map as it is.
C9_NotFound ==
  /\ [](\A t \in Threads :
          Returning(t) =>
            /\ lastWrite[token[t]] = NoWrite
                 => result[t] = Returns(ZeroCredentials, TRUE, ErrCredentialsNotFound)
            /\ result[t].err \in {Nil, ErrCredentialsNotFound}
            /\ result[t].isNil <=> result[t].err # Nil
            /\ (pc[t] = "get_unlockC" /\ result[t].err # Nil)
                 => lastWrite[token[t]] = NoWrite)
  /\ [][\A t \in Threads :
          (pc[t] = "get_lookup" /\ pc'[t] # "get_lookup")
            => credentials' = credentials]_vars

\* GetCredentials is returning ErrCredentialsNotFound for one token while
\* the map holds another.
C9_Witness ==
  \E t \in Workers :
    /\ pc[t] = "get_unlockS" /\ result[t].err = ErrCredentialsNotFound
    /\ Keys # {} /\ currentState = UNBLOCKED

\* C10: GetCredentials that started with no block in force returns, for a
\* token that has been written, the arguments of the latest write to it and
\* that write's time plus 16 minutes.
C10_SetThenGet ==
  \A t \in Threads :
    (pc[t] = "get_unlockC" /\ waits[t] = "no" /\ lastWrite[token[t]] # NoWrite)
      => result[t] = Returns(ValueOf(lastWrite[token[t]]), FALSE, Nil)

\* Such a call returns a credential written at time 1 over an earlier one.
C10_Witness ==
  \E t \in Workers :
    /\ pc[t] = "get_unlockC" /\ waits[t] = "no" /\ currentState = UNBLOCKED
    /\ result[t].ptr = Credentials("AK2", "SK2", "ST2", 1)
    /\ now = 1

\* SetCredentials is copying its literal into the token's slot.
Writing(t) == pc[t] \in Fields

\* C11: the map has one slot per token.  A write to a token the map holds
\* leaves the set of keys as it is, a write to a new token adds that key
\* alone, and no step of a write touches another token's entry.  Whenever no
\* write to a token is in progress its entry is the latest write to it, and
\* that is what GetCredentials returns.
C11_OneEntryPerToken ==
  /\ [](/\ \A k \in Keys :
             (\A t \in Threads : ~(Writing(t) /\ token[t] = k))
               => credentials[k] = ValueOf(lastWrite[k])
        /\ \A t \in Threads :
             (pc[t] = "get_unlockC" /\ ~result[t].isNil)
               => result[t].ptr = ValueOf(lastWrite[token[t]]))
  /\ [][\A t \in Threads :
          /\ (pc[t] = "set_assign" /\ pc'[t] # "set_assign")
               => /\ Keys' = Keys \cup {token'[t]}
                  /\ \A k \in Keys \ {token'[t]} : credentials'[k] = credentials[k]
          /\ (Writing(t) /\ pc'[t] # pc[t])
               => /\ Keys' = Keys
                  /\ \A k \in Keys \ {token[t]} : credentials'[k] = credentials[k]]_vars

\* A second write to a token is half way: its slot holds the new access key
\* beside the old secret, and the map holds both tokens.
C11_Witness ==
  \E t \in Threads :
    /\ pc[t] = "AwsSecret" /\ lit[t].AwsSecret = "SK2"
    /\ credentials[token[t]].AwsKey = "AK2"
    /\ credentials[token[t]].AwsSecret = "SK1"
    /\ Keys = Tokens

\* C12: UpdateCredentials, nobody else writing, on a map that holds no token
\* or more than one returns the error that reports how many it holds, never
\* gets to its loop, and none of its steps changes the map or the state.
C12_UpdateRefuses ==
  /\ [](\A t \in Threads :
          /\ pc[t] = "upd_scan" => Cardinality(Keys) = 1
          /\ (pc[t] = "upd_return" /\ Cardinality(Keys) # 1)
               => result[t] =
                    Returns(ZeroCredentials, TRUE, ErrSetOfCredentials(Cardinality(Keys))))
  /\ [][\A t \in Threads :
          (pc[t] \in {"upd_len", "upd_check", "upd_return"} /\ pc'[t] # pc[t]
             /\ Cardinality(Keys) # 1)
            => (credentials' = credentials /\ currentState' = currentState)]_vars

\* UpdateCredentials is returning "there are 2 set of credentials" during a block.
C12_Witness ==
  /\ pc[Rotator] = "upd_return" /\ Keys = Tokens /\ currentState = BLOCKED
  /\ result[Rotator].err = "there are 2 set of credentials"

\* C13: UpdateCredentials, nobody else writing, on a map that holds exactly
\* one token returns nil, and then the map holds that token alone with the
\* three arguments and the expiration of this write (its time plus 16 minutes).
C13_UpdateWritesSoleToken ==
  \A t \in Threads :
    (pc[t] = "upd_return" /\ Cardinality(Keys) = 1)
      => /\ result[t] = Returns(ZeroCredentials, TRUE, Nil)
         /\ Keys = {token[t]}
         /\ wid[t] = WriteId(args[t], wid[t].at) /\ args[t] \in Inputs
         /\ lastWrite[token[t]] = wid[t]
         /\ credentials[token[t]] = ValueOf(wid[t])

\* UpdateCredentials is returning nil having replaced, at time 1, the
\* credentials of the sole token.
C13_Witness ==
  /\ pc[Rotator] = "upd_return" /\ result[Rotator].err = Nil
  /\ Keys = {"tok2"}
  /\ credentials["tok2"] = Credentials("AK2", "SK2", "ST2", 1)
  /\ \E f \in Fields : origin["tok2"][f] = WriteId(args[Rotator], 1)

\* C14: the state is UNBLOCKED at construction and is always one of the two;
\* it changes only in the assignment of BlockService (UNBLOCKED to BLOCKED)
\* and in the assignment of UnblockService (BLOCKED to UNBLOCKED); the map
\* changes only in the assignment of SetCredentials.
C14_StateFrame ==
  /\ currentState = UNBLOCKED
  /\ [](currentState \in {UNBLOCKED, BLOCKED})
  /\ [][(currentState' # currentState
            => \E t \in Threads :
                 \/ /\ pc[t] = "blk_set" /\ pc'[t] = "blk_unlockC"
                    /\ currentState = UNBLOCKED /\ currentState' = BLOCKED
                 \/ /\ pc[t] = "unb_set" /\ pc'[t] = "unb_unlockS"
                    /\ currentState = BLOCKED /\ currentState' = UNBLOCKED)
         /\ (credentials' # credentials
            => \E u \in Threads :
                 pc[u] \in {"set_assign"} \cup Fields /\ pc'[u] # pc[u])]_vars

\* During a block UpdateCredentials has written through SetCredentials
\* while a GetCredentials call waits at the gate.
C14_Witness ==
  /\ currentState = BLOCKED /\ inUpdate[Rotator] /\ pc[Rotator] = "set_unlock"
  /\ \E t \in Workers : pc[t] = "get_lockS"

\* The statements that read or write c.credentials or c.currentState: a
\* thread at one of these positions performs the access in its next step.
MapReads == {"get_lookup", "upd_len", "upd_scan"}
MapWrites == {"set_assign"} \cup Fields
StateReads == {"blk_check", "unb_check"}
StateWrites == {"blk_set", "unb_set"}

\* C16: every read and every write of the map and of the state is made by
\* a thread that holds contentMutex, and no thread reads the map (the state)
\* while another is writing it.
C16_AccessUnderContentLock ==
  /\ \A t \in Threads :
       pc[t] \in MapReads \cup MapWrites \cup StateReads \cup StateWrites
         => contentMutex = t
  /\ \A t \in Threads : \A u \in Threads \ {t} :
       /\ ~(pc[t] \in MapReads /\ pc[u] \in MapWrites)
       /\ ~(pc[t] \in StateReads /\ pc[u] \in StateWrites)

\* C20: while the write of an UpdateCredentials call is applied (from the
\* assignment to the unlock of contentMutex that precedes "return nil") the
\* map holds exactly one token, the one being written.
C20_UpdateWritesSoleToken ==
  \A t \in Threads :
    (inUpdate[t] /\ pc[t] \in Fields \cup {"set_unlock"})
      => Keys = {token[t]}

\* The positions inside a critical section of contentMutex (after its Lock,
\* up to its Unlock), and the positions at which GetCredentials and
\* BlockService have locked serviceMutex and are still running.
ContentSection ==
  {"set_assign", "set_unlock", "get_lookup", "get_unlockC", "blk_set",
   "blk_unlockC", "unb_set", "unb_unlockS", "unb_unlockC"} \cup Fields
GetHolding == {"get_lockC", "get_lookup", "get_unlockC", "get_unlockS"}
BlockHolding == {"blk_lockC", "blk_set", "blk_unlockC"}
BlockPcs == {"blk_check", "blk_lockS"} \cup BlockHolding
UnblockPcs == {"unb_check", "unb_lockC", "unb_set", "unb_unlockS", "unb_unlockC"}

\* serviceMutex is held by the marker of a BlockService call that has
\* returned: it is locked, and not by a call still running.
BlockMarker ==
  /\ serviceMutex # NoThread
  /\ pc[serviceMutex] \notin GetHolding \cup BlockHolding

\* C15: at most one call is inside a critical section of contentMutex, and
\* it holds contentMutex; at most one call has locked serviceMutex and not
\* yet unlocked it, and it is the holder: a GetCredentials or BlockService
\* call in progress past the gate finds the gate its own.
C15_MutualExclusion ==
  /\ \A t \in Threads : pc[t] \in ContentSection => contentMutex = t
  /\ \A t \in Threads : pc[t] \in GetHolding \cup BlockHolding => serviceMutex = t

\* C17: whenever no BlockService and no UnblockService call is in progress,
\* the state is BLOCKED exactly when serviceMutex is held by the marker of a
\* BlockService call.
C17_GateMatchesState ==
  (\A t \in Threads : pc[t] \notin BlockPcs \cup UnblockPcs)
    => (currentState = BLOCKED <=> BlockMarker)

\* C18: UnblockService unlocks serviceMutex only when the marker of a
\* BlockService call that has returned holds it: never when it is unlocked
\* (the runtime's fatal error), never when a GetCredentials call holds it.
C18_NoDoubleRelease ==
  /\ ~fatal
  /\ \A t \in Threads : pc[t] = "unb_unlockS" => BlockMarker

\* C19: two BlockService calls that started together on an UNBLOCKED
\* service and one UnblockService call made after the first of them
\* returned leave, once these calls have returned, the state UNBLOCKED and
\* no block marker on serviceMutex, so that a GetCredentials call made then
\* does not find the gate held by a marker.
C19_ConcurrentBlocksAsOne ==
  ((\A t \in Threads : pc[t] \notin BlockPcs \cup UnblockPcs) /\ UnblockCalled)
    => (currentState = UNBLOCKED /\ ~BlockMarker)

====
